---- MODULE Spec2Model ----
(***************************************************************************)
(* Job lifecycle and dispatch protocol of RENDEREXPO AI Studio.            *)
(*                                                                         *)
(* Planner side : app/routers/text2img.py (sd35_render),                   *)
(*                app/clients/gpu_client.py (dispatch_sd35_text2img).      *)
(* Renderer side: app/gpu_entry.py (on_startup, gpu_dispatch,              *)
(*                gpu_complete_simulated).                                 *)
(*                                                                         *)
(* The shared state is the file system under outputs/: job folders, one    *)
(* meta.json per folder and the artifact files next to it.  gpu_dispatch   *)
(* and gpu_complete_simulated are `async def` bodies without an await, so  *)
(* one renderer process runs each of them to completion; requests.post in  *)
(* the client blocks the planner until the renderer answered or the        *)
(* transport gave up.  Each endpoint is therefore one action.              *)
(*                                                                         *)
(* JSON values are modelled as strings; "null" stands for JSON null.       *)
(* A dict is a function whose DOMAIN is its key set.                       *)
(***************************************************************************)
EXTENDS Integers, Sequences, FiniteSets, TLC

VARIABLES
    dirs,               \* job folders that exist (os.path.isdir)
    meta,               \* folder -> meta.json: [state, doc]
    files,              \* folder -> names of the artifact files in it
    SD35_RUNTIME_MODE,  \* environment variable of the renderer process
    RUN_REAL_SD35,      \* environment variable of the renderer process
    sd35_runtime,       \* module global of gpu_entry: None or the engine
    clock,              \* datetime.utcnow(), counted in recorded readings
    pending,            \* a request the renderer holds after its client timed out
    last,               \* the last call: its inputs, what it did and returned
    proc,               \* process -> the write of meta.json it is in
    wrote_last,         \* folder -> the process whose write of meta.json
                        \*           finished last (0: none yet)
    seen                \* what the last query of the jobs router read

vars == <<dirs, meta, files, SD35_RUNTIME_MODE, RUN_REAL_SD35, sd35_runtime,
          clock, pending, last, proc, wrote_last, seen>>

fsvars  == <<dirs, meta, files>>
envvars == <<SD35_RUNTIME_MODE, RUN_REAL_SD35, sd35_runtime>>
iovars  == <<proc, wrote_last, seen>>

----------------------------------------------------------------------------
(* Bounds *)

MaxClock == 3       \* recorded readings of the clock in one behaviour
MaxJobs  == 1       \* job ids the allocator can hand out
MaxProcs == 2       \* processes that write meta.json at the same time
MaxListed == 3      \* subfolders of the date folder that a query finds

----------------------------------------------------------------------------
(* Values *)

None == "None"
Null == "null"

JobIds  == 1..MaxJobs
Today   == "2025-11-23"
Dates   == {Today}
Folders == { <<d, j>> : d \in Dates, j \in JobIds }
Bogus   == <<Today, 0>>                 \* a path no allocator call returns
Paths   == Folders \cup {Bogus}

\* uuid4().hex of the i-th allocation
JobName(j) == IF j = 0 THEN "job0" ELSE IF j = 1 THEN "job1"
              ELSE IF j = 2 THEN "job2" ELSE IF j = 3 THEN "job3" ELSE "job4"

\* os.path.basename of a job folder outputs/<date>/<job_id>
FolderBasename(f) == JobName(f[2])

\* datetime.utcnow().isoformat() at clock tick n
ISO(n) == IF n = 0 THEN "T0" ELSE IF n = 1 THEN "T1" ELSE IF n = 2 THEN "T2"
          ELSE IF n = 3 THEN "T3" ELSE IF n = 4 THEN "T4"
          ELSE IF n = 5 THEN "T5" ELSE "T6"

\* os.path.join("outputs", today, job_id, "output.png")
OutputPath(job_id) ==
    IF job_id = "job1" THEN "outputs/2025-11-23/job1/output.png"
    ELSE IF job_id = "job2" THEN "outputs/2025-11-23/job2/output.png"
    ELSE "outputs/2025-11-23/job3/output.png"

\* os.path.basename of a file name
Basename(p) ==
    IF p = "renders/alt.png" THEN "alt.png"
    ELSE IF p \in {OutputPath("job1"), OutputPath("job2"), OutputPath("job3")}
    THEN "output.png"
    ELSE p

\* str.lower() on the values the environment takes
Lower(s) == IF s = "REAL" THEN "real" ELSE s

----------------------------------------------------------------------------
(* dict operations *)

EmptyDict == [k \in {} |-> Null]

\* dict.get(k, d)
Get(m, k, d) == IF k \in DOMAIN m THEN m[k] ELSE d

\* m[k] = v
Put(m, k, v) == [x \in DOMAIN m \cup {k} |-> IF x = k THEN v ELSE m[x]]

\* m.setdefault(k, v)
SetDefault(m, k, v) == IF k \in DOMAIN m THEN m ELSE Put(m, k, v)

\* m.update(inc)
Update(m, inc) ==
    [x \in DOMAIN m \cup DOMAIN inc |-> IF x \in DOMAIN inc THEN inc[x] ELSE m[x]]

----------------------------------------------------------------------------
(* The record store: meta.json of a folder *)

Absent       == [state |-> "absent", doc |-> EmptyDict]
Json(d)      == [state |-> "json", doc |-> d]

\* gpu_entry._read_meta inside the try/except HTTPException of the handlers:
\* a missing meta.json gives {}, a parsed one gives its dict.  A file that
\* does not parse makes json.load raise, which is no HTTPException.
_read_meta(disk) ==
    IF disk.state = "json" THEN [raised |-> FALSE, doc |-> disk.doc]
    ELSE IF disk.state = "absent" THEN [raised |-> FALSE, doc |-> EmptyDict]
    ELSE [raised |-> TRUE, doc |-> EmptyDict]

----------------------------------------------------------------------------
(* Renderer process: environment and engine *)

\* os.getenv(name, default)
GetEnv(v, default) == IF v = "unset" THEN default ELSE v

\* gpu_entry._env_flag
_env_flag(raw, default) ==
    IF raw = "unset" THEN default ELSE Lower(raw) \in {"1", "true", "yes", "on"}

ENABLE_REAL_SD35 == _env_flag(RUN_REAL_SD35, FALSE)

ModeEnvValues == {"unset", "REAL"}
RunEnvValues  == {"unset", "1"}

\* What the global sd35_runtime can hold after on_startup.
\* ShippedEngine is an instance of the class SD35Runtime of
\* runtime/sd35_runtime.py, which defines no attribute is_real.
\* InterfaceEngines are engine objects with the interface gpu_dispatch uses
\* (is_real, generate_text2img(prompt=...) returning an image): one that
\* reports itself initialized and one that does not.
ShippedEngine    == "SD35Runtime"
InterfaceEngines == {"engine_is_real", "engine_not_real"}
Engines          == {ShippedEngine} \cup InterfaceEngines

\* gpu_entry.on_startup: the value it leaves in the global sd35_runtime
on_startup(mode_env, run_env, engine) ==
    IF Lower(GetEnv(mode_env, "skeleton")) = "real" /\ _env_flag(run_env, FALSE)
    THEN engine ELSE None

\* gpu_dispatch, the expression real_mode: "AttributeError" when the last
\* conjunct is evaluated on an object without is_real
real_mode ==
    IF Lower(GetEnv(SD35_RUNTIME_MODE, "skeleton")) = "real"
       /\ ENABLE_REAL_SD35
       /\ sd35_runtime # None
    THEN IF sd35_runtime = ShippedEngine THEN "AttributeError"
         ELSE IF sd35_runtime = "engine_is_real" THEN "True" ELSE "False"
    ELSE "False"

\* outcome of sd35_runtime.generate_text2img(...) followed by image.save(...)
EngineOutcomes == {"image", "generate_raises", "save_raises"}

\* str(e)
ErrorText(out) == IF out = "save_raises" THEN "cannot write image"
                  ELSE "generation error"

\* int(meta.get("width", 1024)) and the like succeed on these values
IntValues == {"512", "1024"}

----------------------------------------------------------------------------
(* gpu_entry.gpu_dispatch as a function of its inputs and of the folder's   *)
(* state when the request is handled (isdir: the folder exists, disk: its  *)
(* meta.json, fls: its artifact files, now: the clock): the response, the  *)
(* record it persists and the files it leaves.                             *)

\* (mutant) the handler goes on without the folder
gpu_ensure_job_folder_lenient(isdir) == "ok"

\* gpu_entry._ensure_job_folder: HTTPException(400) unless the folder exists
gpu_ensure_job_folder(isdir) == IF isdir THEN "ok" ELSE "400"

\* an answer without _write_meta; m is the handler's dict `meta' if it got
\* as far as the merge
NoWrite(disk, fls, code, path, engine, m) ==
    [code |-> code, path |-> path, engine |-> engine, wrote |-> FALSE,
     meta |-> disk, files |-> fls, body |-> EmptyDict, merged |-> m]

\* (mutant) the incoming bag replaces the record
merge_meta_replace(existing, incoming_meta, f) ==
    LET m1 == SetDefault(incoming_meta, "job_id", FolderBasename(f))
        m2 == SetDefault(m1, "type", "text2img")
        m3 == SetDefault(m2, "model_name", "sd3.5-large")
    IN  SetDefault(m3, "mode", "skeleton-no-inference")

\* lines 211-215: meta.update(incoming_meta) and the four setdefault calls
merge_meta(existing, incoming_meta, f) ==
    LET m0 == Update(existing, incoming_meta)
        m1 == SetDefault(m0, "job_id", FolderBasename(f))
        m2 == SetDefault(m1, "type", "text2img")
        m3 == SetDefault(m2, "model_name", "sd3.5-large")
    IN  SetDefault(m3, "mode", "skeleton-no-inference")

\* line 229: the condition of the real path; real_mode is "True" or "False"
takes_real_path(rm, job_type) == rm = "True" /\ job_type = "text2img"

\* lines 272-275: the record of a failed generation
failed_meta(m, now_iso, out) ==
    Put(Put(Put(Put(m, "status", "failed"),
                "mode", "real-sd35-error"),
            "error", ErrorText(out)),
        "failed_at", now_iso)

\* (mutant) the completed record does not name its image
completed_meta_no_image(m, now_iso, output_filename) ==
    Put(Put(Put(Put(m, "status", "completed"),
                "mode", "real-sd35"),
            "dispatched_at", Get(m, "dispatched_at", now_iso)),
        "completed_at", now_iso)

\* lines 283-287: the record of a completed generation
completed_meta(m, now_iso, output_filename) ==
    Put(Put(Put(Put(Put(m, "status", "completed"),
                    "mode", "real-sd35"),
                "dispatched_at", Get(m, "dispatched_at", now_iso)),
            "completed_at", now_iso),
        "output_image", output_filename)

\* (mutant) the skeleton path leaves the merged mode in place
skeleton_meta_keeps_mode(m, now_iso) ==
    Put(Put(m, "status", "dispatched_skeleton"), "dispatched_at", now_iso)

\* lines 309-311: the record of the skeleton path
skeleton_meta(m, now_iso) ==
    Put(Put(Put(m, "status", "dispatched_skeleton"),
            "mode", "skeleton-no-inference"),
        "dispatched_at", now_iso)

\* (mutant) the except branch masks the failure: it goes on as the
\* skeleton path does
on_engine_error_masked(disk, fls, m, now_iso, out) ==
    [code |-> "200", path |-> "real", engine |-> "raised", wrote |-> TRUE,
     meta |-> Json(skeleton_meta(m, now_iso)), files |-> fls,
     body |-> skeleton_meta(m, now_iso), merged |-> m]

\* (mutant) the except branch raises without writing the record
on_engine_error_unrecorded(disk, fls, m, now_iso, out) ==
    [code |-> "500", path |-> "real", engine |-> "raised", wrote |-> FALSE,
     meta |-> disk, files |-> fls, body |-> EmptyDict, merged |-> m]

\* lines 269-280: the except branch writes the failed record and raises
\* HTTPException(500)
on_engine_error(disk, fls, m, now_iso, out) ==
    [code |-> "500", path |-> "real", engine |-> "raised", wrote |-> TRUE,
     meta |-> Json(failed_meta(m, now_iso, out)), files |-> fls,
     body |-> EmptyDict, merged |-> m]

\* (mutant) the completed record is written without the image being saved
on_engine_image_unsaved(disk, fls, m, now_iso, output_filename) ==
    [code |-> "200", path |-> "real", engine |-> "returned", wrote |-> TRUE,
     meta |-> Json(completed_meta(m, now_iso, output_filename)),
     files |-> fls, body |-> completed_meta(m, now_iso, output_filename),
     merged |-> m]

\* lines 258-268 and 282-297: the image is saved, the completed record is
\* written and returned
on_engine_image(disk, fls, m, now_iso, output_filename) ==
    LET completed == completed_meta(m, now_iso, output_filename) IN
    [code |-> "200", path |-> "real", engine |-> "returned", wrote |-> TRUE,
     meta |-> Json(completed), files |-> fls \cup {output_filename},
     body |-> completed, merged |-> m]

\* lines 299-320: the skeleton path writes its record and returns it; it
\* creates no file
on_skeleton(disk, fls, m, now_iso) ==
    LET skeleton == skeleton_meta(m, now_iso) IN
    [code |-> "200", path |-> "skeleton", engine |-> "not_invoked",
     wrote |-> TRUE, meta |-> Json(skeleton), files |-> fls,
     body |-> skeleton, merged |-> m]

gpu_dispatch(isdir, disk, fls, now, f, incoming_meta, out) ==
    LET rd       == _read_meta(disk)
        merged   == merge_meta(rd.doc, incoming_meta, f)
        job_type == Get(merged, "type", "text2img")
        now_iso  == ISO(now)
        planned_output_rel == Get(merged, "planned_output_image", "output.png")
        output_filename    == Basename(planned_output_rel)
    IN
    IF gpu_ensure_job_folder(isdir) # "ok"
    THEN NoWrite(disk, fls, "400", "none", "not_invoked", EmptyDict)
    ELSE IF rd.raised
    THEN NoWrite(disk, fls, "500", "none", "not_invoked", EmptyDict)
    ELSE IF real_mode = "AttributeError"
    THEN NoWrite(disk, fls, "500", "none", "not_invoked", merged)
    ELSE IF takes_real_path(real_mode, job_type)
    THEN IF Get(merged, "width", "1024") \notin IntValues
         THEN NoWrite(disk, fls, "500", "real", "not_invoked", merged)
         ELSE IF out = "image"
         THEN on_engine_image(disk, fls, merged, now_iso, output_filename)
         ELSE on_engine_error(disk, fls, merged, now_iso, out)
    ELSE on_skeleton(disk, fls, merged, now_iso)

----------------------------------------------------------------------------
(* gpu_entry.gpu_complete_simulated, in the same form *)

\* PIL in the renderer's environment, as _create_dummy_png finds it
PilStates == {"available", "import_fails", "save_raises"}

gpu_complete_simulated(isdir, disk, fls, now, f, pil) ==
    LET rd       == _read_meta(disk)
        now_iso  == ISO(now)
        planned_output_rel == Get(rd.doc, "planned_output_image", "output.png")
        output_filename    == Basename(planned_output_rel)
        make_dummy == output_filename \notin fls
        done ==
            Put(Put(Put(Put(rd.doc, "status", "completed_skeleton"),
                        "mode", "skeleton-no-inference"),
                    "completed_at", now_iso),
                "output_image", output_filename)
    IN
    IF gpu_ensure_job_folder(isdir) # "ok"
    THEN NoWrite(disk, fls, "400", "none", "not_invoked", EmptyDict)
    ELSE IF rd.raised
    THEN NoWrite(disk, fls, "500", "none", "not_invoked", EmptyDict)
    ELSE IF make_dummy /\ pil = "save_raises"
    THEN NoWrite(disk, fls, "500", "none", "not_invoked", rd.doc)
    ELSE [code |-> "200", path |-> "complete", engine |-> "not_invoked",
          wrote |-> TRUE, meta |-> Json(done),
          files |-> IF make_dummy /\ pil = "available"
                    THEN fls \cup {output_filename} ELSE fls,
          body |-> done, merged |-> rd.doc]

----------------------------------------------------------------------------
(* Planner: app/clients/gpu_client.py and app/routers/text2img.py *)

\* What happens to requests.post(url, json=payload, timeout=600):
\*   refused   the connection fails, the renderer never sees the request
\*   timeout   the renderer has the request but has not answered in time
\*   handled   the renderer's answer arrives
\*   not_json  a 200 answer arrives whose body is no JSON (not produced by
\*             gpu_entry, whose answers are JSON: another process answers)
NetOutcomes == {"refused", "timeout", "handled", "not_json"}

\* (mutant) the client does not look at the status code
dispatch_sd35_text2img_unchecked(net, eff) ==
    IF net \in {"refused", "timeout"}
    THEN [ok |-> FALSE, error |-> "gpu_request_failed", data |-> EmptyDict]
    ELSE IF net = "not_json"
    THEN [ok |-> FALSE, error |-> "gpu_invalid_json", data |-> EmptyDict]
    ELSE [ok |-> TRUE, error |-> "none", data |-> eff.body]

\* dispatch_sd35_text2img: (ok, data) from the transport outcome and, when
\* the renderer answered, from its response
dispatch_sd35_text2img(net, eff) ==
    IF net \in {"refused", "timeout"}
    THEN [ok |-> FALSE, error |-> "gpu_request_failed", data |-> EmptyDict]
    ELSE IF net = "not_json"
    THEN [ok |-> FALSE, error |-> "gpu_invalid_json", data |-> EmptyDict]
    ELSE IF eff.code # "200"
    THEN [ok |-> FALSE, error |-> "gpu_status_not_200", data |-> EmptyDict]
    ELSE [ok |-> TRUE, error |-> "none", data |-> eff.body]

\* config/lora_profiles.json and refiner_profiles.json are not shipped:
\* _load_json_file returns {} for a missing file
LORA_PROFILES    == {}
REFINER_PROFILES == {}

\* core/safety.py: the blocklist
DISALLOWED_KEYWORDS ==
    {"child porn", "cp", "underage", "under-age", "kidnapping", "terrorist",
     "terrorism", "bomb making", "make a bomb", "self harm", "suicide",
     "kill myself", "kill him", "kill her", "beheading", "graphic gore",
     "disemboweled", "neo-nazi", "white supremacist", "hate symbol"}

\* the prompts of the model
Prompts == {"a red chair", "How to MAKE A BOMB"}

\* `kw in text.lower()` for the texts of the model
KeywordIn(kw, text) == text = "How to MAKE A BOMB" /\ kw = "make a bomb"

\* core/safety.check_prompt_safety: (is_safe, found)
check_prompt_safety(prompt, negative_prompt) ==
    LET found == {kw \in DISALLOWED_KEYWORDS :
                     KeywordIn(kw, prompt) \/ KeywordIn(kw, negative_prompt)}
    IN  [is_safe |-> found = {}, found |-> found]

Requests ==
    [prompt : Prompts, width : {"512"}, lora_profile : {Null, "bogus"}]

\* the dict built at text2img.py step 3
PlannedMeta(job_id, created_at, request) ==
    [k \in {"job_id", "created_at", "type", "model_name", "prompt",
            "negative_prompt", "width", "height", "num_inference_steps",
            "guidance_scale", "style_preset", "material_preset",
            "lighting_preset", "seed", "planned_output_image", "status",
            "mode", "lora_profile", "lora_config", "refiner_profile",
            "refiner_config"} |->
        CASE k = "job_id"               -> job_id
          [] k = "created_at"           -> created_at
          [] k = "type"                 -> "text2img"
          [] k = "model_name"           -> "sd3.5-large"
          [] k = "prompt"               -> request.prompt
          [] k = "width"                -> request.width
          [] k = "height"               -> "1024"
          [] k = "num_inference_steps"  -> "25"
          [] k = "guidance_scale"       -> "6.0"
          [] k = "planned_output_image" -> OutputPath(job_id)
          [] k = "status"               -> "planned"
          [] k = "mode"                 -> "skeleton-or-real"
          [] k = "lora_profile"         -> request.lora_profile
          [] OTHER                      -> Null]

----------------------------------------------------------------------------
(* Inputs *)

\* Parameter bags a caller sends with a dispatch: nothing, two bags of free
\* parameters, a job type the engine does not support, and another promised
\* file name.
Bags ==
    { EmptyDict,
      [k \in {"a", "b"} |-> IF k = "a" THEN "1" ELSE "2"],
      [k \in {"b", "c"} |-> IF k = "b" THEN "3" ELSE "4"],
      [k \in {"type"} |-> "img2img"],
      [k \in {"planned_output_image"} |-> "renders/alt.png"] }

\* The job ids are interchangeable: the n-th call of uuid4 gives id n.
Fresh(j) == j = Cardinality(dirs) + 1

\* Folders a caller names: the existing ones and one that does not exist.
Callable == dirs \cup {Bogus}

\* The bag is not looked at when the folder does not exist or when the
\* request does not get to the renderer: one bag stands for all.
BagsFor(f) == IF f \in dirs THEN Bags ELSE {EmptyDict}
BagsVia(net) == IF net \in {"timeout", "handled"} THEN Bags ELSE {EmptyDict}

\* an answer of sd35_render that names no job
NoAnswer == [status |-> "none", job_folder |-> Bogus,
             meta_path |-> <<Bogus, "none">>]

\* the processes that write records: renderer workers and the planner
Procs == 1..MaxProcs

\* a process that is in no call
Idle == [pc |-> "idle", op |-> "none", folder |-> Bogus, doc |-> EmptyDict]

\* no query yet
NoRead == [op |-> "none", folder |-> Bogus, code |-> "none",
           doc |-> EmptyDict, jobs |-> EmptyDict, persisted |-> {}]

NoPending == [active |-> FALSE, folder |-> Bogus, bag |-> EmptyDict]

\* op       the endpoint or function called
\* folder   its job folder, bag its parameter bag
\* pre, prefiles   meta.json and the files of the folder when the renderer
\*          (for a call that never got there: the client) took the request
\* reached  the request got to the renderer
\* code     the renderer's HTTP status, path the branch it took, engine what
\*          the engine call did, wrote whether _write_meta ran, body the
\*          record in its answer
\* merged   the handler's dict `meta' before it stamps the outcome
\* ok, error, data   the client's result (planner-side calls), net what
\*          became of its request
\* status   the "status" of sd35_render's answer, answer the job folder and
\*          the record path it names
\* after    "transport" when the call before this one was a call for the
\*          same folder that ended in a transport failure without getting
\*          to the renderer
NoCall ==
    [op |-> "none", folder |-> Bogus, bag |-> EmptyDict,
     pre |-> [state |-> "absent", doc |-> EmptyDict], prefiles |-> {},
     reached |-> FALSE, code |-> "none", path |-> "none",
     engine |-> "not_invoked", wrote |-> FALSE, body |-> EmptyDict,
     merged |-> EmptyDict,
     ok |-> FALSE, error |-> "none", status |-> "none", after |-> "none",
     answer |-> NoAnswer, net |-> "none", data |-> EmptyDict]

----------------------------------------------------------------------------
(* Initial state: empty outputs/, and the renderer after on_startup in one  *)
(* of the environments it can be started in                                *)

Init ==
    /\ dirs = {}
    /\ meta = [f \in Paths |-> Absent]
    /\ files = [f \in Paths |-> {}]
    /\ SD35_RUNTIME_MODE \in ModeEnvValues
    /\ RUN_REAL_SD35 \in RunEnvValues
    /\ \E engine \in Engines :
          sd35_runtime = on_startup(SD35_RUNTIME_MODE, RUN_REAL_SD35, engine)
    /\ clock = 0
    /\ pending = NoPending
    /\ last = NoCall
    /\ proc = [w \in Procs |-> Idle]
    /\ wrote_last = [f \in Paths |-> 0]
    /\ seen = NoRead

----------------------------------------------------------------------------
(* Actions *)

\* the renderer handles a request at time now: its effect on the folder.
\* Time passes for the model when a reading of the clock is written down.
Handle(f, now, eff) ==
    /\ meta' = [meta EXCEPT ![f] = eff.meta]
    /\ files' = [files EXCEPT ![f] = eff.files]
    /\ clock' = IF eff.wrote THEN now + 1 ELSE now

\* the record of a call that the renderer handled
Handled(op, f, bag, pre, prefiles, eff) ==
    [NoCall EXCEPT !.op = op, !.folder = f, !.bag = bag, !.pre = pre,
                   !.prefiles = prefiles, !.reached = TRUE,
                   !.code = eff.code, !.path = eff.path,
                   !.engine = eff.engine, !.wrote = eff.wrote,
                   !.body = eff.body, !.merged = eff.merged]

\* text2img.py lines 220-239: what sd35_render answers after the dispatch
sd35_render_answer(ok, f) ==
    [status |-> IF ok THEN "dispatched" ELSE "gpu_error",
     job_folder |-> f, meta_path |-> <<f, "meta.json">>]

\* the record of a planner-side call: the above (when the renderer answered)
\* with the client's (ok, data) and sd35_render's answer
Returned(call, r, status) ==
    [call EXCEPT !.ok = r.ok, !.error = r.error, !.status = status,
                 !.answer = IF call.op = "sd35_render"
                            THEN sd35_render_answer(r.ok, call.folder)
                            ELSE NoAnswer,
                 !.after = IF /\ last.folder = call.folder
                              /\ last.error = "gpu_request_failed"
                              /\ ~last.reached
                           THEN "transport" ELSE "none"]

\* POST /api/gpu/dispatch by any caller
GpuDispatch(f, bag, out) ==
    LET eff == gpu_dispatch(f \in dirs, meta[f], files[f], clock, f, bag, out)
    IN
    /\ ~pending.active
    /\ clock < MaxClock
    /\ Handle(f, clock, eff)
    /\ last' = Handled("gpu_dispatch", f, bag, meta[f], files[f], eff)
    /\ UNCHANGED <<dirs, envvars, pending, iovars>>

\* POST /api/gpu/complete-simulated by any caller
GpuCompleteSimulated(f, pil) ==
    LET eff == gpu_complete_simulated(f \in dirs, meta[f], files[f], clock,
                                      f, pil)
    IN
    /\ ~pending.active
    /\ clock < MaxClock
    /\ Handle(f, clock, eff)
    /\ last' = Handled("gpu_complete_simulated", f, EmptyDict, meta[f],
                       files[f], eff)
    /\ UNCHANGED <<dirs, envvars, pending, iovars>>

\* The renderer gets to the request whose client has given up
PendingHandled(out) ==
    LET f   == pending.folder
        eff == gpu_dispatch(f \in dirs, meta[f], files[f], clock, f,
                            pending.bag, out)
    IN
    /\ pending.active
    /\ clock < MaxClock
    /\ Handle(f, clock, eff)
    /\ last' = Handled("pending_dispatch", f, pending.bag, meta[f], files[f],
                       eff)
    /\ pending' = NoPending
    /\ UNCHANGED <<dirs, envvars, iovars>>

\* text2img._ensure_job_folder without what follows it in sd35_render: the
\* planner stops between creating the folder and writing meta.json
_ensure_job_folder(j) ==
    /\ Fresh(j)
    /\ dirs' = dirs \cup {<<Today, j>>}
    /\ last' = [NoCall EXCEPT !.op = "allocate", !.folder = <<Today, j>>]
    /\ UNCHANGED <<meta, files, envvars, clock, pending, iovars>>

\* (mutant) the orchestrator marks the record of a failed dispatch
after_dispatch_failure_marked(disk) ==
    Json(Put(disk.doc, "status", "gpu_error"))

\* (mutant) the orchestrator rolls the planned record back
after_dispatch_failure_rollback(disk) == Absent

\* text2img.py lines 220-229: when the client reports a failure the
\* orchestrator returns its gpu_error answer and leaves meta.json as it is
after_dispatch_failure(disk) == disk

\* The client's call for (f, bag) when meta.json of f holds disk: what
\* becomes of the folder, of the renderer's queue and of `last'.  While the
\* renderer holds a request it is alive and busy: a connection to it is not
\* refused and nothing else answers on its port, and a further request
\* would only wait behind the held one (at most one is held here).
ClientCall(op, f, bag, disk, now, net, out) ==
    LET eff  == gpu_dispatch(TRUE, disk, files[f], now, f, bag, out)
        r    == dispatch_sd35_text2img(net, eff)
        sent == [NoCall EXCEPT !.op = op, !.folder = f, !.bag = bag,
                               !.pre = disk, !.prefiles = files[f]]
        st   == IF op = "sd35_render"
                THEN IF r.ok THEN "dispatched" ELSE "gpu_error"
                ELSE "none"
        ret(call) == [Returned(call, r, st) EXCEPT !.net = net,
                                                   !.data = r.data]
    IN
    \/ /\ net \in {"refused", "not_json"}
       /\ ~pending.active
       /\ now <= MaxClock
       /\ meta' = [meta EXCEPT ![f] = after_dispatch_failure(disk)]
       /\ last' = ret(sent)
       /\ clock' = now
       /\ UNCHANGED <<files, pending>>
    \/ /\ net = "timeout"
       /\ ~pending.active
       /\ now <= MaxClock
       /\ meta' = [meta EXCEPT ![f] = after_dispatch_failure(disk)]
       /\ pending' = [active |-> TRUE, folder |-> f, bag |-> bag]
       /\ last' = ret([sent EXCEPT !.reached = TRUE])
       /\ clock' = now
       /\ UNCHANGED files
    \/ /\ net = "handled"
       /\ ~pending.active
       /\ now < MaxClock
       /\ Handle(f, now, eff)
       /\ last' = ret(Handled(op, f, bag, disk, files[f], eff))
       /\ UNCHANGED pending

\* gpu_client.dispatch_sd35_text2img(job_folder, meta) against an existing
\* job: the retry of a dispatch
ClientDispatch(f, bag, net, out) ==
    /\ f \in dirs
    /\ ClientCall("client_dispatch", f, bag, meta[f], clock, net, out)
    /\ UNCHANGED <<dirs, envvars, iovars>>

\* (mutant) the record is written only after the dispatch
write_planned_deferred(meta0) == Absent

\* text2img.py step 4: meta.json as the `with open(...)` block leaves it
\* before the client is called
write_planned(meta0) == Json(meta0)

\* text2img.sd35_render: POST /api/sd35/render.  uuid4 gives a job id that
\* no existing folder has (Fresh); meta.json is written before the client is called.
sd35_render(request, j, net, out) ==
    LET f       == <<Today, j>>
        meta0   == PlannedMeta(JobName(j), ISO(clock), request)
        unknown == request.lora_profile # Null
                   /\ request.lora_profile \notin LORA_PROFILES
    IN
    \/ /\ unknown
       /\ last' = [NoCall EXCEPT !.op = "sd35_render", !.code = "400",
                                 !.status = "rejected"]
       /\ UNCHANGED <<fsvars, envvars, clock, pending, iovars>>
    \/ /\ ~unknown
       /\ Fresh(j)
       /\ dirs' = dirs \cup {f}
       /\ ClientCall("sd35_render", f, meta0, write_planned(meta0), clock + 1,
                     net, out)
       /\ UNCHANGED <<envvars, iovars>>

Next ==
    \/ \E f \in Callable : \E bag \in BagsFor(f), out \in EngineOutcomes :
          GpuDispatch(f, bag, out)
    \/ \E f \in Callable, pil \in PilStates : GpuCompleteSimulated(f, pil)
    \/ \E out \in EngineOutcomes : PendingHandled(out)
    \/ \E j \in JobIds : _ensure_job_folder(j)
    \/ \E f \in Folders, net \in NetOutcomes, out \in EngineOutcomes :
          \E bag \in BagsVia(net) : ClientDispatch(f, bag, net, out)
    \/ \E q \in Requests, j \in JobIds, net \in NetOutcomes,
          out \in EngineOutcomes :
          sd35_render(q, j, net, out)

Spec == Init /\ [][Next]_vars

TypeOK ==
    /\ dirs \subseteq Folders
    /\ clock \in 0..MaxClock
    /\ sd35_runtime \in Engines \cup {None}
    /\ \A f \in Paths : meta[f].state \in {"absent", "json"}

----------------------------------------------------------------------------
(* The same endpoints at the grain of their file operations.               *)
(*                                                                         *)
(* meta.json is written by `with open(path, "w") as f: json.dump(meta, f)` *)
(* (gpu_entry._write_meta, text2img.py step 4): open truncates the file,   *)
(* the text is buffered and reaches the file when the `with` block closes  *)
(* it.  The planner (app.main, which also serves the jobs router) and the  *)
(* renderer (app.gpu_entry) are different processes on one outputs/ tree,  *)
(* and the renderer may run several workers.  Between the two steps of one *)
(* process every other process can read and write the file.                *)

\* meta.json right after open(path, "w"): no bytes
Empty == [state |-> "empty", doc |-> EmptyDict]

\* meta.json holding the text of a shorter document followed by the rest of
\* the longer text of d, which was there before
Mixed(d) == [state |-> "mixed", doc |-> d]

\* Length of the text json.dump(d, indent=...) writes: one line per key.
\* (The values of the model differ in width by less than a line.)
Size(d) == Cardinality(DOMAIN d)

\* The file after a process that has it open for writing at offset 0 writes
\* the text of d and closes: bytes that another process wrote behind the
\* end of that text since the truncation stay in the file.
dump_over(cur, d) ==
    IF cur.state \in {"json", "mixed"} /\ Size(cur.doc) > Size(d)
    THEN Mixed(cur.doc)
    ELSE Json(d)

\* the request of the planner in this specification
IoRequest == [prompt |-> "a red chair", width |-> "512", lora_profile |-> Null]

\* bags of the dispatches in this specification
IoBags == { EmptyDict, [k \in {"b", "c"} |-> IF k = "b" THEN "3" ELSE "4"] }

Free(w) == proc[w].pc \in {"idle", "done"}

\* sd35_render steps 2-3: the folder is made and the record built
sd35_render_plan(w, j) ==
    LET f == <<Today, j>> IN
    /\ Free(w)
    /\ Fresh(j)
    /\ clock < MaxClock
    /\ dirs' = dirs \cup {f}
    /\ proc' = [proc EXCEPT ![w] =
                   [pc |-> "computed", op |-> "sd35_render", folder |-> f,
                    doc |-> PlannedMeta(JobName(j), ISO(clock), IoRequest)]]
    /\ clock' = clock + 1
    /\ UNCHANGED <<meta, files, envvars, pending, last, wrote_last, seen>>

\* a handler of the renderer up to its call of _write_meta: it has read
\* meta.json and built the record it is going to write, or it has answered
\* with an error
handler_begin(w, f, op, eff) ==
    /\ Free(w)
    /\ f \in dirs
    /\ clock < MaxClock
    /\ proc' = [proc EXCEPT ![w] =
                   IF eff.wrote
                   THEN [pc |-> "computed", op |-> op, folder |-> f,
                         doc |-> eff.meta.doc]
                   ELSE [pc |-> "idle", op |-> op, folder |-> f,
                         doc |-> EmptyDict]]
    /\ files' = [files EXCEPT ![f] = eff.files]
    /\ clock' = IF eff.wrote THEN clock + 1 ELSE clock
    /\ UNCHANGED <<dirs, meta, envvars, pending, last, wrote_last, seen>>

gpu_dispatch_begin(w, f, bag) ==
    handler_begin(w, f, "gpu_dispatch",
                  gpu_dispatch(TRUE, meta[f], files[f], clock, f, bag, "image"))

gpu_complete_simulated_begin(w, f) ==
    handler_begin(w, f, "gpu_complete_simulated",
                  gpu_complete_simulated(TRUE, meta[f], files[f], clock, f,
                                         "available"))

\* open(meta_file, "w")
open_w(w) ==
    /\ proc[w].pc = "computed"
    /\ meta' = [meta EXCEPT ![proc[w].folder] = Empty]
    /\ proc' = [proc EXCEPT ![w].pc = "opened"]
    /\ UNCHANGED <<dirs, files, envvars, clock, pending, last, wrote_last,
                   seen>>

\* json.dump(meta, f) and the close of the `with` block
dump_close(w) ==
    LET f == proc[w].folder IN
    /\ proc[w].pc = "opened"
    /\ meta' = [meta EXCEPT ![f] = dump_over(meta[f], proc[w].doc)]
    /\ proc' = [proc EXCEPT ![w].pc = "done"]
    /\ wrote_last' = [wrote_last EXCEPT ![f] = w]
    /\ UNCHANGED <<dirs, files, envvars, clock, pending, last, seen>>

\* (mutant) a record that does not parse is reported as not found
_load_meta_conflated(disk) ==
    IF disk.state = "json" THEN [code |-> "200", doc |-> disk.doc]
    ELSE [code |-> "404", doc |-> EmptyDict]

\* jobs._load_meta: the status it raises, or "200" and the dict
_load_meta(disk) ==
    IF disk.state = "absent" THEN [code |-> "404", doc |-> EmptyDict]
    ELSE IF disk.state = "json" THEN [code |-> "200", doc |-> disk.doc]
    ELSE [code |-> "500", doc |-> EmptyDict]

\* the folders whose record has been written completely at least once
Persisted == {f \in Paths : wrote_last[f] # 0}

\* jobs.get_job
get_job(f) ==
    LET r == IF f \notin dirs THEN [code |-> "404", doc |-> EmptyDict]
             ELSE _load_meta(meta[f])
    IN
    /\ seen' = [op |-> "get_job", folder |-> f, code |-> r.code,
                doc |-> r.doc, jobs |-> EmptyDict, persisted |-> Persisted]
    /\ UNCHANGED <<fsvars, envvars, clock, pending, last, proc, wrote_last>>

\* jobs.list_jobs_for_date, lines 105-114: the summary of one job
summary(d, name) ==
    [job_id |-> Get(d, "job_id", name), type |-> Get(d, "type", "unknown"),
     model_name |-> Get(d, "model_name", Null),
     created_at |-> Get(d, "created_at", Null),
     status |-> Get(d, "status", "unknown"),
     prompt |-> Get(d, "prompt", Null),
     planned_output_image |-> Get(d, "planned_output_image", Null),
     output_image |-> Get(d, "output_image", Null)]

\* (mutant) one record that does not load fails the whole listing
list_jobs_for_date_strict(date) ==
    LET there  == {f \in dirs : f[1] = date /\ meta[f].state # "absent"}
        broken == \E f \in there : _load_meta(meta[f]).code = "500"
    IN
    /\ seen' = [op |-> "list", folder |-> Bogus,
                code |-> IF broken THEN "500" ELSE "200",
                doc |-> EmptyDict,
                jobs |-> IF broken THEN EmptyDict
                         ELSE [f \in there |->
                                  summary(meta[f].doc, FolderBasename(f))],
                persisted |-> Persisted]
    /\ UNCHANGED <<fsvars, envvars, clock, pending, last, proc, wrote_last>>

\* jobs.list_jobs_for_date: folders without meta.json and folders whose
\* meta.json does not load are skipped; jobs has one summary for each of
\* the others (the list of the code, indexed by the folder it stands for)
list_jobs_for_date(date) ==
    LET listed == {f \in dirs : f[1] = date /\ _load_meta(meta[f]).code = "200"}
    IN
    /\ seen' = [op |-> "list", folder |-> Bogus, code |-> "200",
                doc |-> EmptyDict,
                jobs |-> [f \in listed |->
                             summary(meta[f].doc, FolderBasename(f))],
                persisted |-> Persisted]
    /\ UNCHANGED <<fsvars, envvars, clock, pending, last, proc, wrote_last>>

\* the renderer in its default environment (skeleton mode), empty outputs/
InitIO ==
    /\ dirs = {}
    /\ meta = [f \in Paths |-> Absent]
    /\ files = [f \in Paths |-> {}]
    /\ SD35_RUNTIME_MODE = "unset"
    /\ RUN_REAL_SD35 = "unset"
    /\ sd35_runtime = on_startup(SD35_RUNTIME_MODE, RUN_REAL_SD35, ShippedEngine)
    /\ clock = 0
    /\ pending = NoPending
    /\ last = NoCall
    /\ proc = [w \in Procs |-> Idle]
    /\ wrote_last = [f \in Paths |-> 0]
    /\ seen = NoRead

NextIO ==
    \/ \E w \in Procs, j \in JobIds : sd35_render_plan(w, j)
    \/ \E w \in Procs, f \in Folders, bag \in IoBags :
          gpu_dispatch_begin(w, f, bag)
    \/ \E w \in Procs, f \in Folders : gpu_complete_simulated_begin(w, f)
    \/ \E w \in Procs : open_w(w)
    \/ \E w \in Procs : dump_close(w)
    \/ \E f \in Paths : get_job(f)
    \/ \E date \in Dates : list_jobs_for_date(date)

SpecIO == InitIO /\ [][NextIO]_vars

----------------------------------------------------------------------------
(* The jobs router over an outputs/ tree as it may be found: get_job and   *)
(* list_jobs_for_date only read it.                                        *)

QFolders == { <<d, j>> : d \in Dates, j \in 1..MaxListed }
QPaths   == QFolders \cup {Bogus}

\* a record that was not written by the planner
ForeignDoc == [k \in {"a", "b"} |-> IF k = "a" THEN "1" ELSE "2"]

\* what meta.json of an existing folder f may be: missing, empty, a mix of
\* two texts, the planner's record, or another JSON object
QRecords(f) ==
    LET planned == PlannedMeta(FolderBasename(f), ISO(0), IoRequest) IN
    {Absent, Empty, Mixed(planned), Json(planned), Json(ForeignDoc)}

InitQ ==
    /\ dirs \in SUBSET QFolders
    /\ meta \in [QPaths -> UNION {QRecords(f) : f \in QFolders}]
    /\ \A f \in QPaths : IF f \in dirs THEN meta[f] \in QRecords(f)
                                       ELSE meta[f] = Absent
    /\ files = [f \in QPaths |-> {}]
    /\ SD35_RUNTIME_MODE = "unset"
    /\ RUN_REAL_SD35 = "unset"
    /\ sd35_runtime = on_startup(SD35_RUNTIME_MODE, RUN_REAL_SD35, ShippedEngine)
    /\ clock = 0
    /\ pending = NoPending
    /\ last = NoCall
    /\ proc = [w \in Procs |-> Idle]
    /\ wrote_last = [f \in QPaths |-> 0]
    /\ seen = NoRead

NextQ ==
    \/ \E f \in QPaths : get_job(f)
    \/ \E date \in Dates : list_jobs_for_date(date)

SpecQ == InitQ /\ [][NextQ]_vars

----------------------------------------------------------------------------
(* text2img._ensure_job_folder called by several requests at once: each    *)
(* call draws its job id with uuid.uuid4() and then makes the folder with  *)
(* os.makedirs(job_folder, exist_ok=True).  The calls share nothing but    *)
(* the outputs/ tree.                                                      *)

\* the folders that calls under way have drawn and not yet made
Drawn == {proc[w].folder : w \in {v \in Procs : proc[v].pc = "drawn"}}

\* (mutant) a draw may repeat an id
uuid4_any(j, taken) == TRUE

\* uuid.uuid4(): a random 122-bit id; it is taken to differ from every id
\* drawn before
uuid4(j, taken) == <<Today, j>> \notin taken

\* lines 56-58: today's date, the job id and the path of the folder
ensure_draw(w, j) ==
    /\ Free(w)
    /\ uuid4(j, dirs \cup Drawn)
    /\ proc' = [proc EXCEPT ![w] = [pc |-> "drawn", op |-> "allocate",
                                    folder |-> <<Today, j>>,
                                    doc |-> EmptyDict]]
    /\ UNCHANGED <<fsvars, envvars, clock, pending, last, wrote_last, seen>>

\* lines 59-60: os.makedirs(job_folder, exist_ok=True); return job_folder
ensure_makedirs(w) ==
    /\ proc[w].pc = "drawn"
    /\ dirs' = dirs \cup {proc[w].folder}
    /\ proc' = [proc EXCEPT ![w].pc = "done"]
    /\ last' = [NoCall EXCEPT !.op = "allocate", !.folder = proc[w].folder]
    /\ UNCHANGED <<meta, files, envvars, clock, pending, wrote_last, seen>>

InitAlloc ==
    /\ dirs = {}
    /\ meta = [f \in QPaths |-> Absent]
    /\ files = [f \in QPaths |-> {}]
    /\ SD35_RUNTIME_MODE = "unset"
    /\ RUN_REAL_SD35 = "unset"
    /\ sd35_runtime = on_startup(SD35_RUNTIME_MODE, RUN_REAL_SD35, ShippedEngine)
    /\ clock = 0
    /\ pending = NoPending
    /\ last = NoCall
    /\ proc = [w \in Procs |-> Idle]
    /\ wrote_last = [f \in QPaths |-> 0]
    /\ seen = NoRead

NextAlloc ==
    \/ \E w \in Procs, j \in 1..MaxListed : ensure_draw(w, j)
    \/ \E w \in Procs : ensure_makedirs(w)

SpecAlloc == InitAlloc /\ [][NextAlloc]_vars

----------------------------------------------------------------------------
(* Vocabulary of the properties *)

Doc(f)      == meta[f].doc
StatusOf(d) == Get(d, "status", "<none>")
ModeOf(d)   == Get(d, "mode", "<none>")

\* the last call went through the client
ByClient == last.op \in {"sd35_render", "client_dispatch"}

\* the last call is a dispatch that the handler gpu_dispatch has answered
Dispatched ==
    /\ last.op \in {"sd35_render", "client_dispatch", "gpu_dispatch",
                    "pending_dispatch"}
    /\ last.code # "none"

\* the client's three failure classes
TransportFailure == ByClient /\ last.error = "gpu_request_failed"
ProtocolFailure  == ByClient /\ last.error = "gpu_status_not_200"
DecodingFailure  == ByClient /\ last.error = "gpu_invalid_json"

----------------------------------------------------------------------------
(* C1 *)

\* a dispatch through the client against folder f that the renderer answers
\* with success and that leaves the record completed or dispatched_skeleton
RetrySucceeds(f) ==
    \E bag \in Bags, out \in EngineOutcomes :
        /\ ClientDispatch(f, bag, "handled", out)
        /\ last'.ok
        /\ StatusOf(meta'[f].doc) \in {"completed", "dispatched_skeleton"}

----------------------------------------------------------------------------
(* C2 *)

----------------------------------------------------------------------------
(* C3 *)

----------------------------------------------------------------------------
(* C4 *)

----------------------------------------------------------------------------
(* C5, C6 *)

\* the handler got as far as the merge, and the type of the merged record
Merged     == Dispatched /\ "type" \in DOMAIN last.merged
MergedType == last.merged["type"]

\* C5 as stated: a dispatch whose merged record has another job type than
\* text2img ends with the persisted status dispatched_skeleton and a success
\* answer, whatever the real-execution flags and the engine are.
C5_UnsupportedTypeFallsBack ==
    (Merged /\ MergedType # "text2img") =>
        /\ last.code = "200"
        /\ StatusOf(Doc(last.folder)) = "dispatched_skeleton"

\* the three conditions of the real path
FlagSet           == Lower(GetEnv(SD35_RUNTIME_MODE, "skeleton")) = "real"
                     /\ ENABLE_REAL_SD35
EngineInitialized == sd35_runtime = "engine_is_real"
Eligible          == FlagSet /\ EngineInitialized /\ MergedType = "text2img"

\* C6 as stated: the engine is invoked only when the flag is set, the engine
\* reports itself initialized and the merged type is text2img; in every
\* other case the handler takes the fallback path without invoking it.
C6_RealPathOnlyWhenEligible ==
    Merged =>
        /\ last.engine # "not_invoked" => Eligible
        /\ ~Eligible => (last.path = "skeleton" /\ last.engine = "not_invoked")

----------------------------------------------------------------------------
(* C7 *)

\* the keys whose values the handler sets itself after the merge
Stamped == {"status", "mode", "dispatched_at", "completed_at", "failed_at",
            "output_image", "error"}

----------------------------------------------------------------------------
(* C8, C9 *)

\* the file name a record promises
Promised(d) == Basename(Get(d, "planned_output_image", "output.png"))

\* C8 as stated: after a dispatch on the fallback path the record has status
\* dispatched_skeleton, mode skeleton-no-inference and a dispatched_at stamp,
\* and a file with the promised name is in the job folder.
C8_FallbackRecordAndArtifact ==
    (Dispatched /\ last.path = "skeleton") =>
        /\ StatusOf(Doc(last.folder)) = "dispatched_skeleton"
        /\ ModeOf(Doc(last.folder)) = "skeleton-no-inference"
        /\ "dispatched_at" \in DOMAIN Doc(last.folder)
        /\ Promised(Doc(last.folder)) \in files[last.folder]

----------------------------------------------------------------------------
(* C10 *)

\* the lifecycle order of §4.2: planned, then dispatched_skeleton, then the
\* three final states
Rank(st) == IF st = "planned" THEN 0
            ELSE IF st = "dispatched_skeleton" THEN 1 ELSE 2

\* C10 as stated: no step moves the persisted status of a job backward in
\* the lifecycle order.
C10_StatusMonotonic ==
    [][\A f \in Paths :
          ("status" \in DOMAIN meta[f].doc /\ "status" \in DOMAIN meta'[f].doc)
          => Rank(meta'[f].doc["status"]) >= Rank(meta[f].doc["status"])]_vars

----------------------------------------------------------------------------
(* C11 *)

\* the statuses §4.2 calls terminal
Final == {"completed", "failed", "completed_skeleton"}

\* C11 as stated: once the persisted status of a job is completed, failed or
\* completed_skeleton, no step changes it.
C11_FinalStatusKept ==
    [][\A f \in Paths :
          StatusOf(meta[f].doc) \in Final
          => StatusOf(meta'[f].doc) = StatusOf(meta[f].doc)]_vars

----------------------------------------------------------------------------
(* C12 *)

\* C12 as stated: no persisted record has both output_image and error;
\* output_image is present only with status completed or completed_skeleton,
\* error only with status failed.
C12_OutputAndErrorExclusive ==
    \A f \in Paths :
        LET d == Doc(f) IN
        /\ ~("output_image" \in DOMAIN d /\ "error" \in DOMAIN d)
        /\ "output_image" \in DOMAIN d
              => StatusOf(d) \in {"completed", "completed_skeleton"}
        /\ "error" \in DOMAIN d => StatusOf(d) = "failed"

----------------------------------------------------------------------------
(* C13 *)

Stamps == {"created_at", "dispatched_at", "completed_at", "failed_at"}

\* C13 as stated: a time stamp that a record holds is never overwritten: no
\* step changes created_at, dispatched_at, completed_at or failed_at of a
\* record that has it.
C13_StampsWrittenOnce ==
    [][\A f \in Paths : \A k \in Stamps :
          k \in DOMAIN meta[f].doc
          => Get(meta'[f].doc, k, "<none>") = meta[f].doc[k]]_vars

----------------------------------------------------------------------------
(* C14 *)

\* C14 as stated: in a record the planner created (it has created_at), no
\* step changes job_id or type.
C14_IdentityImmutable ==
    [][\A f \in Paths :
          "created_at" \in DOMAIN meta[f].doc
          => /\ Get(meta'[f].doc, "job_id", "<none>")
                   = Get(meta[f].doc, "job_id", "<none>")
             /\ Get(meta'[f].doc, "type", "<none>")
                   = Get(meta[f].doc, "type", "<none>")]_vars

----------------------------------------------------------------------------
(* C15, C16: under SpecIO *)

\* C15 as stated: a reader of a job folder never finds a meta.json that is
\* empty, half-written or mixed: get_job never fails to parse the record.
C15_ReadersSeeWholeRecords ==
    seen.op = "get_job" => seen.code # "500"

\* two dispatch calls of different processes against folder f have both
\* finished their write, and no write of f is under way
BothDispatchesDone(f) ==
    /\ \E w1, w2 \in Procs :
          /\ w1 # w2
          /\ proc[w1].pc = "done" /\ proc[w2].pc = "done"
          /\ proc[w1].folder = f /\ proc[w2].folder = f
          /\ proc[w1].op = "gpu_dispatch" /\ proc[w2].op = "gpu_dispatch"
    /\ \A w \in Procs : proc[w].folder = f => proc[w].pc = "done"

\* C16 as stated: after two dispatch calls against the same folder have both
\* finished, meta.json is the record computed by the call that wrote last.
C16_LastWriterWins ==
    \A f \in Folders :
        BothDispatchesDone(f) => meta[f] = Json(proc[wrote_last[f]].doc)

----------------------------------------------------------------------------
(* C17 *)

\* the last call is a client call whose timeout expired while the renderer
\* held the request
TimedOut == TransportFailure /\ last.reached

\* C17 as stated: after the client's timeout expired on the dispatch of a
\* planned job, the persisted record stays the planned record for as long as
\* the dispatch is not issued again: the renderer's late handling of the
\* request the client gave up on does not change it.
C17_TimeoutLeavesPlanned ==
    [][(TimedOut /\ StatusOf(Doc(last.folder)) = "planned"
            /\ last'.op = "pending_dispatch")
       => StatusOf(meta'[last.folder].doc) = "planned"]_vars

----------------------------------------------------------------------------
(* C18: under SpecIO *)

\* C18 as stated: a query made after the record of a job was persisted finds
\* the job: list_jobs_for_date has a summary with its job id, get_job
\* returns its record.
C18_JobNeverVanishes ==
    /\ seen.op = "list" =>
          \A f \in seen.persisted :
              \E g \in DOMAIN seen.jobs :
                  seen.jobs[g].job_id = FolderBasename(f)
    /\ (seen.op = "get_job" /\ seen.folder \in seen.persisted) =>
          seen.code = "200"

----------------------------------------------------------------------------
(* C19 *)

\* sd35_render got a failure from the client: one of the three classes
RenderDispatchFailed ==
    /\ last.op = "sd35_render"
    /\ last.error \in {"gpu_request_failed", "gpu_status_not_200",
                       "gpu_invalid_json"}

\* C19: when the client reports a failure to sd35_render, the answer has
\* status gpu_error and names the job folder and the path of its meta.json,
\* the folder and the record exist, no file of the folder is gone, and the
\* record is the one sd35_render wrote before the dispatch unless the handler
\* itself has rewritten it.
C19_FailureLeavesFolder ==
    RenderDispatchFailed =>
        /\ last.answer = [status |-> "gpu_error", job_folder |-> last.folder,
                          meta_path |-> <<last.folder, "meta.json">>]
        /\ last.folder \in dirs
        /\ meta[last.folder].state = "json"
        /\ last.prefiles \subseteq files[last.folder]
        /\ ~last.wrote => /\ meta[last.folder] = last.pre
                          /\ StatusOf(Doc(last.folder)) = "planned"
        /\ last.wrote => last.engine = "raised"

\* C19 witness: the renderer answered something that is no JSON, and the
\* planned record is on disk
C19_Witness ==
    /\ RenderDispatchFailed
    /\ last.error = "gpu_invalid_json"
    /\ last.answer.status = "gpu_error"
    /\ meta[last.folder] = last.pre
    /\ StatusOf(Doc(last.folder)) = "planned"

----------------------------------------------------------------------------
(* C20 *)

\* C20 as stated: a call of sd35_render whose prompt the safety screen
\* rejects leaves no job folder, no record and no dispatch request behind.
C20_UnsafePromptRejected ==
    (last.op = "sd35_render" /\ "prompt" \in DOMAIN last.bag
        /\ ~check_prompt_safety(last.bag["prompt"],
                                last.bag["negative_prompt"]).is_safe)
    => /\ last.folder \notin dirs
       /\ meta[last.folder].state = "absent"
       /\ ~last.reached

----------------------------------------------------------------------------
(* C21 *)

\* C21: a dispatch that names a folder which does not exist is answered 400
\* before anything else happens: the engine is not invoked, no path is
\* taken, nothing is written, and afterwards there is still no folder, no
\* meta.json and no file under that name.
C21_MissingFolderRejected ==
    (Dispatched /\ last.folder \notin dirs) =>
        /\ last.code = "400"
        /\ ~last.wrote
        /\ last.engine = "not_invoked"
        /\ last.path = "none"
        /\ meta[last.folder] = Absent
        /\ files[last.folder] = {}

\* C21 witness: the rejection comes before the renderer evaluates real_mode,
\* which would raise here
C21_Witness ==
    /\ Dispatched
    /\ last.folder = Bogus
    /\ last.code = "400"
    /\ real_mode = "AttributeError"

----------------------------------------------------------------------------
(* C22 *)

\* C22 as stated: a dispatch against a folder that exists and holds no
\* meta.json is not refused for that: the handler merges the incoming bag
\* into an empty record, selects a path and persists a record that holds the
\* bag's keys.
C22_MissingRecordTolerated ==
    (Dispatched /\ last.folder \in dirs /\ last.pre.state = "absent") =>
        /\ last.code # "400"
        /\ last.merged = merge_meta(EmptyDict, last.bag, last.folder)
        /\ last.path \in {"real", "skeleton"}
        /\ last.wrote
        /\ meta[last.folder].state = "json"
        /\ DOMAIN last.bag \subseteq DOMAIN Doc(last.folder)

----------------------------------------------------------------------------
(* C23 *)

\* the last call went through the client and the client was called
ClientCalled == ByClient /\ last.status # "rejected"

\* C23: a call of the client ends in exactly one of four ways: ok with the
\* record of the renderer's 200 answer; gpu_request_failed when no response
\* was received; gpu_status_not_200 when a response with another status was
\* received; gpu_invalid_json when a 200 response was received whose body
\* does not decode.
C23_ClientClassifies ==
    ClientCalled =>
        \/ /\ last.ok /\ last.error = "none"
           /\ last.net = "handled" /\ last.code = "200"
           /\ last.data = last.body
        \/ /\ ~last.ok /\ last.error = "gpu_request_failed"
           /\ last.net \in {"refused", "timeout"} /\ last.code = "none"
        \/ /\ ~last.ok /\ last.error = "gpu_status_not_200"
           /\ last.net = "handled" /\ last.code \notin {"200", "none"}
        \/ /\ ~last.ok /\ last.error = "gpu_invalid_json"
           /\ last.net = "not_json"

\* C23 witness: a retry through the client got the renderer's record back
C23_Witness ==
    /\ last.op = "client_dispatch"
    /\ last.ok
    /\ last.net = "handled"
    /\ last.data = Doc(last.folder)
    /\ StatusOf(last.data) = "dispatched_skeleton"

----------------------------------------------------------------------------
(* C24, C25: under SpecQ, where the tree does not change *)

\* the subfolders of the date folder whose meta.json is there and parses
Readable == {f \in dirs : meta[f].state = "json"}

\* the subfolders whose meta.json is there and does not parse
Corrupt == {f \in dirs : meta[f].state \in {"empty", "mixed"}}

C25_NotFoundVersusDecodeError ==
    seen.op = "get_job" =>
        LET f == seen.folder IN
        /\ seen.code = "404" <=> (f \notin dirs \/ meta[f].state = "absent")
        /\ seen.code = "500" <=> f \in Corrupt
        /\ seen.code = "200" <=> f \in Readable
        /\ seen.code = "200" => seen.doc = meta[f].doc

\* C25 witness: a folder whose meta.json is an empty file
C25_Witness ==
    /\ seen.op = "get_job"
    /\ seen.folder \in dirs
    /\ meta[seen.folder].state = "empty"
    /\ seen.code = "500"

----------------------------------------------------------------------------
(* C26: under SpecAlloc *)

\* the calls of the allocator that have returned, by the process that made
\* them (the latest call of each)
Returns == {w \in Procs : proc[w].op = "allocate" /\ proc[w].pc = "done"}

\* C26: the folder a call of the allocator returns exists when the call
\* returns and did not exist before (no earlier call returned it), and the
\* folders returned to different processes are different.
C26_AllocationsDistinct ==
    /\ [](/\ \A w \in Returns : proc[w].folder \in dirs
          /\ \A v, w \in Returns : v # w => proc[v].folder # proc[w].folder)
    /\ [][\A w \in Procs :
             (proc[w].pc = "drawn" /\ proc'[w].pc = "done")
             => /\ proc[w].folder \notin dirs
                /\ proc[w].folder \in dirs']_vars

\* C26 witness: every process holds a folder it was returned, and as many
\* folders exist as the id space of the model has
C26_Witness ==
    /\ Cardinality(dirs) = MaxListed
    /\ Cardinality(Returns) = MaxProcs
    /\ last.op = "allocate"

----------------------------------------------------------------------------
(* C27 *)

\* C27: when sd35_render calls the client, meta.json of the job folder
\* already holds the record it sends, with status "planned": a handler that
\* gets the request finds that record, and the folder has a record whatever
\* became of the request.
C27_PlannedBeforeDispatch ==
    (last.op = "sd35_render" /\ last.status # "rejected") =>
        /\ last.pre = Json(last.bag)
        /\ StatusOf(last.pre.doc) = "planned"
        /\ last.folder \in dirs
        /\ meta[last.folder].state = "json"
        /\ last.code # "none" => last.merged = last.pre.doc

\* C27 witness: the handler got sd35_render's request, found the planned
\* record and completed the job on the real path
C27_Witness ==
    /\ last.op = "sd35_render"
    /\ last.path = "real"
    /\ StatusOf(last.pre.doc) = "planned"
    /\ last.merged = last.pre.doc
    /\ StatusOf(Doc(last.folder)) = "completed"

----------------------------------------------------------------------------
(* C28 *)

\* C28 as stated: a manual-completion call for an existing folder, and a
\* dispatch on the fallback path, answer 200 and persist their record,
\* whatever becomes of the placeholder file.
C28_ArtifactFailureTolerated ==
    /\ (last.op = "gpu_complete_simulated" /\ last.folder \in dirs) =>
          /\ last.code = "200"
          /\ last.wrote
          /\ StatusOf(Doc(last.folder)) = "completed_skeleton"
    /\ (Dispatched /\ last.path = "skeleton") =>
          /\ last.code = "200"
          /\ last.wrote

----------------------------------------------------------------------------
(* C29 *)

\* status and mode of the two successful outcomes of a dispatch
SuccessPairs == { <<"completed", "real-sd35">>,
                  <<"dispatched_skeleton", "skeleton-no-inference">> }

\* C29: after a dispatch that the handler answered with 200, status and mode
\* of the persisted record, and of the record in the answer, are those of
\* the path taken, whatever status and mode the incoming bag or the record
\* on disk had.
C29_HandlerValuesOverride ==
    (Dispatched /\ last.code = "200") =>
        /\ <<StatusOf(Doc(last.folder)), ModeOf(Doc(last.folder))>>
              \in SuccessPairs
        /\ <<StatusOf(last.body), ModeOf(last.body)>> \in SuccessPairs
        /\ last.path = "real" <=> StatusOf(Doc(last.folder)) = "completed"

\* C29 witness: the planner's bag carried planned and skeleton-or-real
C29_Witness ==
    /\ last.op = "sd35_render"
    /\ last.code = "200"
    /\ Get(last.bag, "status", Null) = "planned"
    /\ Get(last.bag, "mode", Null) = "skeleton-or-real"
    /\ StatusOf(Doc(last.folder)) = "dispatched_skeleton"
    /\ ModeOf(Doc(last.folder)) = "skeleton-no-inference"

----------------------------------------------------------------------------
(* C30 *)

====
